---- MODULE Spec2Model ----
(***************************************************************************)
(* Model of the two concurrent harvesting cores of the repository:         *)
(*   - task2: ProcessManager (start_processes / monitor) supervising the   *)
(*     worker processes of BookScraper.run;                                *)
(*   - task1: BaseScraper.run with its scrape_worker threads and the       *)
(*     db_writer_worker thread over task_queue / data_queue.               *)
(* Python indices are 0-based; sequences here are 1-based, so the handle   *)
(* of index i is processes[i + 1] and categories[a:b] is Slice(_, a, b).   *)
(***************************************************************************)
EXTENDS Integers, Sequences, FiniteSets, TLC

\* ---- bounds of the model ----
MaxCats == 3      \* longest category list
MaxProcs == 3     \* largest num_processes
MaxFail == 2      \* most abnormal exits in one run of the supervisor
MaxItems == 2     \* most work items discovery yields
MaxThreads == 2   \* largest thread_count
MaxSubset == 2    \* longest chunk handed to the worker modelled step by step
MaxBooks == 2     \* most books of one category

VARIABLES
  categories,     \* ProcessManager.categories (BookScraper.categories)
  num_processes,  \* ProcessManager.num_processes
  failK,          \* environment: index i exits abnormally on its first failK[i] launches
  units,          \* units[i + 1]: every mp.Process started for index i, in start order
  processes,      \* ProcessManager.processes: handle i is unit processes[i + 1] of units[i + 1]
  results,        \* the shared mp.Manager().list(): number of records per category
  mpc,            \* position of BookScraper.run / ProcessManager
  mi,             \* loop index of the loop mpc is in
  books,          \* what BookScraper.run dumps to books.json
  \* ---- task1 ----
  items,          \* the work items discovery yields, in put order (item id = position)
  thread_count,   \* BaseScraper.run(thread_count)
  task_queue,     \* self.task_queue: ids of the queued items
  unfinished_tasks, \* self.task_queue.unfinished_tasks
  data_queue,     \* self.data_queue: ids of the records' items; 0 is the None sentinel
  threads,        \* the scrape_worker threads: position, item in hand, parse result
  rpc,            \* position of BaseScraper.run
  ri,             \* loop index of the loop rpc is in
  wpc,            \* position of the db_writer_worker thread
  wdata,          \* the writer's local `data`
  committed,      \* records inserted and committed, in commit order
  transformed,    \* history: parse_product calls per item
  puller,         \* history: the thread that pulled each item (0: none yet)
  done_marks,     \* history: task_done calls per item
  sink,           \* history: what the database did: the connect, and each record's insert/commit
  \* ---- the sequential parts, each modelled on its own ----
  disc,           \* BaseScraper.run's discovery loop over self.categories
  worker,         \* one scrape_worker_wrapper process, step by step
  call            \* one call of parse_product or collect_data: input and result

supVars == <<categories, num_processes, failK, units, processes, results, mpc, mi, books>>
pipeVars == <<items, thread_count, task_queue, unfinished_tasks, data_queue, threads,
              rpc, ri, wpc, wdata, committed, transformed, puller, done_marks, sink>>
seqVars == <<disc, worker, call>>
vars == <<supVars, pipeVars, seqVars>>

Min(a, b) == IF a < b THEN a ELSE b

\* Python slice s[a:b] for 0 <= a, 0 <= b (both clamped to len(s))
Slice(s, a, b) == SubSeq(s, Min(a, Len(s)) + 1, Min(b, Len(s)))

\* chunk_size = len(self.categories) // self.num_processes
chunk_size(L, N) == Len(L) \div N

\* mutant: the last chunk is cut like every other chunk
StartChunkNoRemainder(L, N, i) ==
  Slice(L, i * chunk_size(L, N), (i + 1) * chunk_size(L, N))

\* start_processes: subset = self.categories[start:end]
StartChunk(L, N, i) ==
  LET start == i * chunk_size(L, N)
      end == IF i < N - 1 THEN (i + 1) * chunk_size(L, N) ELSE Len(L)
  IN Slice(L, start, end)

\* mutant: the replacement is handed everything from its start index on
RestartChunkToEnd(L, N, i) ==
  Slice(L, i * chunk_size(L, N), Len(L))

\* monitor: subset = self.categories[i*(len//n) : (i+1)*(len//n)]
RestartChunk(L, N, i) ==
  Slice(L, i * (Len(L) \div N), (i + 1) * (Len(L) \div N))

\* p.is_alive()
is_alive(u) == u.state = "alive"

\* mutant: only the exit status is looked at (None != 0 holds for a live unit)
NeedsRestartNoAliveCheck(u) == u.exitcode # "zero"

\* monitor: if not p.is_alive() and p.exitcode != 0
NeedsRestart(u) == ~is_alive(u) /\ u.exitcode # "zero"

\* mutant: the while condition looks at the first handle only
ScanExhaustedFirstOnly(j, n) == TRUE

\* any(...) has run out of handles after looking at handle j (0-based) of n
ScanExhausted(j, n) == j + 1 >= n

\* mp.Process(target=self.target_func, args=(subset, ...)); p.start()
\* p.exitcode is kept as "None" (not terminated), "zero" or "nonzero".
\* The unit's fate is the environment's: launch number n of index i exits
\* abnormally iff n <= failK[i + 1].
NewUnit(us, i, subset) ==
  [subset |-> subset, pos |-> 0, state |-> "alive", exitcode |-> "None",
   fate |-> IF Len(us[i + 1]) + 1 <= failK[i + 1] THEN "crash" ELSE "ok"]

\* mutant: the new handle is appended, the crashed one stays tracked
AppendHandle(ps, i, n) == Append(ps, n)

\* monitor: self.processes[i] = new_p
ReplaceHandle(ps, i, n) == [ps EXCEPT ![i + 1] = n]

\* the unit behind handle i
Handle(i) == units[i + 1][processes[i + 1]]

Identity(n) == [k \in 1..n |-> k]

RECURSIVE SumTo(_, _)
SumTo(f, n) == IF n = 0 THEN 0 ELSE f[n] + SumTo(f, n - 1)

SupInit ==
  /\ \E n \in 1..MaxCats : categories = Identity(n)
  /\ num_processes \in 1..MaxProcs
  /\ failK \in {f \in [1..num_processes -> 0..MaxFail] : SumTo(f, num_processes) <= MaxFail}
  /\ units = [i \in 1..num_processes |-> <<>>]
  /\ processes = <<>>
  /\ results = [c \in 1..Len(categories) |-> 0]
  /\ mpc = "start"
  /\ mi = 0
  /\ books = <<>>

\* start_processes: one iteration of `for i in range(self.num_processes)`
StartProcess ==
  /\ mpc = "start"
  /\ mi < num_processes
  /\ units' = [units EXCEPT ![mi + 1] =
                 Append(@, NewUnit(units, mi, StartChunk(categories, num_processes, mi)))]
  /\ processes' = Append(processes, Len(units[mi + 1]) + 1)
  /\ mi' = mi + 1
  /\ UNCHANGED <<categories, num_processes, failK, results, mpc, books>>
  /\ UNCHANGED <<pipeVars, seqVars>>

\* start_processes returns; run calls manager.monitor()
StartDone ==
  /\ mpc = "start"
  /\ mi = num_processes
  /\ mpc' = "while"
  /\ mi' = 0
  /\ UNCHANGED <<categories, num_processes, failK, units, processes, results, books>>
  /\ UNCHANGED <<pipeVars, seqVars>>

\* monitor: `while any(p.is_alive() for p in self.processes)`, one handle at a time
MonitorWhile ==
  /\ mpc = "while"
  /\ IF is_alive(Handle(mi))
     THEN mpc' = "for" /\ mi' = 0
     ELSE IF ScanExhausted(mi, num_processes)
          THEN mpc' = "join" /\ mi' = 0
          ELSE mpc' = "while" /\ mi' = mi + 1
  /\ UNCHANGED <<categories, num_processes, failK, units, processes, results, books>>
  /\ UNCHANGED <<pipeVars, seqVars>>

\* monitor: one iteration of `for i, p in enumerate(self.processes)`
MonitorFor ==
  /\ mpc = "for"
  /\ mi < num_processes
  /\ IF NeedsRestart(Handle(mi))
     THEN /\ units' = [units EXCEPT ![mi + 1] =
                         Append(@, NewUnit(units, mi, RestartChunk(categories, num_processes, mi)))]
          /\ processes' = ReplaceHandle(processes, mi, Len(units[mi + 1]) + 1)
     ELSE UNCHANGED <<units, processes>>
  /\ mi' = mi + 1
  /\ UNCHANGED <<categories, num_processes, failK, results, mpc, books>>
  /\ UNCHANGED <<pipeVars, seqVars>>

\* monitor: time.sleep(1), then back to the while condition
MonitorSleep ==
  /\ mpc = "for"
  /\ mi = num_processes
  /\ mpc' = "while"
  /\ mi' = 0
  /\ UNCHANGED <<categories, num_processes, failK, units, processes, results, books>>
  /\ UNCHANGED <<pipeVars, seqVars>>

\* monitor: `for p in self.processes: p.join()`, one handle at a time
MonitorJoin ==
  /\ mpc = "join"
  /\ mi < num_processes
  /\ ~is_alive(Handle(mi))
  /\ mi' = mi + 1
  /\ UNCHANGED <<categories, num_processes, failK, units, processes, results, mpc, books>>
  /\ UNCHANGED <<pipeVars, seqVars>>

\* monitor returns; run dumps list(self.results)
RunDump ==
  /\ mpc = "join"
  /\ mi = num_processes
  /\ books' = results
  /\ mpc' = "done"
  /\ UNCHANGED <<categories, num_processes, failK, units, processes, results, mi>>
  /\ UNCHANGED <<pipeVars, seqVars>>

\* scrape_worker_wrapper: scrape_category(cat_url) of the next category of the
\* subset appends that category's record to the shared list
WorkerScrape(i, n) ==
  LET u == units[i + 1][n] IN
  /\ is_alive(u)
  /\ u.pos < Len(u.subset)
  /\ results' = [results EXCEPT ![u.subset[u.pos + 1]] = @ + 1]
  /\ units' = [units EXCEPT ![i + 1][n].pos = @ + 1]
  /\ UNCHANGED <<categories, num_processes, failK, processes, mpc, mi, books>>
  /\ UNCHANGED <<pipeVars, seqVars>>

\* scrape_worker_wrapper returns: the process ends with exit status 0
WorkerExit(i, n) ==
  LET u == units[i + 1][n] IN
  /\ is_alive(u)
  /\ u.fate = "ok"
  /\ u.pos = Len(u.subset)
  /\ units' = [units EXCEPT ![i + 1][n].state = "exited", ![i + 1][n].exitcode = "zero"]
  /\ UNCHANGED <<categories, num_processes, failK, processes, results, mpc, mi, books>>
  /\ UNCHANGED <<pipeVars, seqVars>>

\* the process dies (killed, or an error outside the wrapper's try): exit status # 0
WorkerCrash(i, n) ==
  LET u == units[i + 1][n] IN
  /\ is_alive(u)
  /\ u.fate = "crash"
  /\ units' = [units EXCEPT ![i + 1][n].state = "exited", ![i + 1][n].exitcode = "nonzero"]
  /\ UNCHANGED <<categories, num_processes, failK, processes, results, mpc, mi, books>>
  /\ UNCHANGED <<pipeVars, seqVars>>

SupNext ==
  \/ StartProcess
  \/ StartDone
  \/ MonitorWhile
  \/ MonitorFor
  \/ MonitorSleep
  \/ MonitorJoin
  \/ RunDump
  \/ \E i \in 0..(num_processes - 1) : \E n \in 1..Len(units[i + 1]) : WorkerScrape(i, n)
  \/ \E i \in 0..(num_processes - 1) : \E n \in 1..Len(units[i + 1]) : WorkerExit(i, n)
  \/ \E i \in 0..(num_processes - 1) : \E n \in 1..Len(units[i + 1]) : WorkerCrash(i, n)


\* the pipeline as it is before BaseScraper.run is called
PipeIdle ==
  /\ items = <<>>
  /\ thread_count = 1
  /\ task_queue = <<>>
  /\ unfinished_tasks = 0
  /\ data_queue = <<>>
  /\ threads = <<>>
  /\ rpc = "idle"
  /\ ri = 0
  /\ wpc = "unstarted"
  /\ wdata = 0
  /\ committed = <<>>
  /\ transformed = <<>>
  /\ puller = <<>>
  /\ done_marks = <<>>
  /\ sink = [connect |-> "none", rec |-> <<>>]

\* the sequential parts before anything calls them
SeqIdle ==
  /\ disc = [pc |-> "idle"]
  /\ worker = [pc |-> "idle"]
  /\ call = [pc |-> "idle"]

\* BookScraper.run is about to start; the pipeline is not running
Init == SupInit /\ PipeIdle /\ SeqIdle

Spec == Init /\ [][SupNext]_vars

\* ------------------------------------------------------------------------
\* task1: BaseScraper.run, scrape_worker, db_writer_worker
\* ------------------------------------------------------------------------

\* The work items the model draws from. An API item is fetch_api_products'
\* {'data': product, 'source': 'api'} (shape "bad": product is no mapping);
\* an HTML item is a product block: name/link say whether the name and the
\* detail-link XPaths match, detail what fetching the detail page gives
\* ("empty": status 200 with an empty body, on which html.fromstring raises
\* lxml's ParserError).
ApiItem(shape, name) ==
  [source |-> "api", shape |-> shape, name |-> name, link |-> FALSE, detail |-> "ok"]
HtmlItem(name, link, detail) ==
  [source |-> "html", shape |-> "ok", name |-> name, link |-> link, detail |-> detail]
ItemKinds ==
  { ApiItem("ok", TRUE), ApiItem("ok", FALSE), ApiItem("bad", TRUE),
    HtmlItem(TRUE, TRUE, "ok"), HtmlItem(TRUE, FALSE, "ok"),
    HtmlItem(TRUE, TRUE, "status"), HtmlItem(TRUE, TRUE, "reqexc"),
    HtmlItem(TRUE, TRUE, "empty") }

\* the items the pipeline is run on: one for each way parse_product can end
\* (record or None on the API branch; record, None or an escaping exception
\* on the HTML branch)
QueuedKinds ==
  { ApiItem("ok", TRUE), ApiItem("bad", TRUE),
    HtmlItem(TRUE, TRUE, "ok"), HtmlItem(TRUE, TRUE, "status"),
    HtmlItem(TRUE, TRUE, "empty") }

Exceptions ==
  {"AttributeError", "IndexError", "RequestException", "ParserError", "JSONDecodeError"}

\* parse_product, API branch: the body of its try
ApiBody(item) ==
  IF item.shape = "bad" THEN "AttributeError"
  ELSE IF ~item.name THEN "None"
  ELSE "record"

\* parse_product, HTML branch: the body of its try
HtmlBody(item) ==
  IF ~item.name THEN "None"
  ELSE IF ~item.link THEN "None"
  ELSE CASE item.detail = "reqexc" -> "RequestException"
         [] item.detail = "status" -> "None"
         [] item.detail = "empty" -> "ParserError"
         [] OTHER -> "record"

\* parse_product: "record", "None", or "raise" when an exception leaves it.
\* The API branch has `except Exception`, the HTML branch
\* `except (IndexError, requests.RequestException)`.
parse_product(item) ==
  IF item.source = "api"
  THEN IF ApiBody(item) \in Exceptions THEN "None" ELSE ApiBody(item)
  ELSE IF HtmlBody(item) \in {"IndexError", "RequestException"} THEN "None"
       ELSE IF HtmlBody(item) \in Exceptions THEN "raise"
       ELSE HtmlBody(item)

\* mutant: get hands out the head of the queue without removing it
QueueRestPeek(q) == q

\* Queue.get: what is left in the queue after the head was handed out
QueueRest(q) == Tail(q)

\* mutant: join does not wait for the outstanding tasks
AllTasksDoneNoWait(n) == TRUE

\* Queue.join returns once unfinished_tasks is 0
AllTasksDone(n) == n = 0

\* mutant: task_done forgets to count the task down
task_done_forgets(n) == n

\* Queue.task_done: unfinished_tasks after the call
task_done(n) == n - 1

\* mutant: the worker puts whatever parse_product returned, None included
PutsDataAlways(r) == TRUE

\* scrape_worker: `if data:` (a record is a non-empty dict, None is falsy)
PutsData(r) == r = "record"

\* what psycopg2 can do with one record: "ok"; "insert_err": cur.execute
\* raises (the following commit then only ends the failed transaction);
\* "commit_err": conn.commit() raises
SinkOutcomes == {"ok", "insert_err", "commit_err"}

\* insert_to_db wraps cur.execute in try/except Exception; conn.commit() is
\* called bare in db_writer_worker: does the writer thread survive?
WriterSurvives(outcome) == outcome # "commit_err"

\* mutant: a failed insert is committed like a good one
IsCommittedAnyInsert(outcome) == outcome # "commit_err"

\* the record is in the database after insert_to_db and conn.commit()
IsCommitted(outcome) == outcome = "ok"

\* the writer thread has ended (threading.Thread.join returns)
WriterEnded == wpc \in {"exited", "died"}

RECURSIVE SeqsUpTo(_, _)
SeqsUpTo(S, n) ==
  IF n = 0 THEN {<<>>}
  ELSE LET shorter == SeqsUpTo(S, n - 1)
       IN shorter \cup {Append(q, x) : q \in {r \in shorter : Len(r) = n - 1}, x \in S}

PipeInit ==
  /\ items \in SeqsUpTo(QueuedKinds, MaxItems)
  /\ thread_count \in 1..MaxThreads
  /\ task_queue = <<>>
  /\ unfinished_tasks = 0
  /\ data_queue = <<>>
  /\ threads = <<>>
  /\ rpc = "discover"
  /\ ri = 0
  /\ wpc = "unstarted"
  /\ wdata = 0
  /\ committed = <<>>
  /\ transformed = [k \in 1..Len(items) |-> 0]
  /\ puller = [k \in 1..Len(items) |-> 0]
  /\ done_marks = [k \in 1..Len(items) |-> 0]
  /\ sink = [connect |-> "none", rec |-> [k \in 1..Len(items) |-> "none"]]

\* run: self.task_queue.put((product, category)) for the next discovered item
RunPut ==
  /\ rpc = "discover"
  /\ ri < Len(items)
  /\ task_queue' = Append(task_queue, ri + 1)
  /\ unfinished_tasks' = unfinished_tasks + 1
  /\ ri' = ri + 1
  /\ UNCHANGED <<items, thread_count, data_queue, threads, rpc, wpc, wdata, committed,
                 transformed, puller, done_marks, sink>>
  /\ UNCHANGED <<supVars, seqVars>>

\* run: the discovery loop is over
RunDiscovered ==
  /\ rpc = "discover"
  /\ ri = Len(items)
  /\ rpc' = "spawn"
  /\ ri' = 0
  /\ UNCHANGED <<items, thread_count, task_queue, unfinished_tasks, data_queue, threads,
                 wpc, wdata, committed, transformed, puller, done_marks, sink>>
  /\ UNCHANGED <<supVars, seqVars>>

\* run: one iteration of `for _ in range(thread_count)`: start a scrape_worker
RunSpawn ==
  /\ rpc = "spawn"
  /\ ri < thread_count
  /\ threads' = Append(threads, [pc |-> "get", item |-> 0, data |-> "None"])
  /\ ri' = ri + 1
  /\ UNCHANGED <<items, thread_count, task_queue, unfinished_tasks, data_queue,
                 rpc, wpc, wdata, committed, transformed, puller, done_marks, sink>>
  /\ UNCHANGED <<supVars, seqVars>>

\* run: db_writer.start()
RunStartWriter ==
  /\ rpc = "spawn"
  /\ ri = thread_count
  /\ wpc' = "connect"
  /\ rpc' = "join"
  /\ UNCHANGED <<items, thread_count, task_queue, unfinished_tasks, data_queue, threads,
                 ri, wdata, committed, transformed, puller, done_marks, sink>>
  /\ UNCHANGED <<supVars, seqVars>>

\* run: self.task_queue.join() returns once unfinished_tasks is 0
RunJoin ==
  /\ rpc = "join"
  /\ AllTasksDone(unfinished_tasks)
  /\ rpc' = "sentinel"
  /\ UNCHANGED <<items, thread_count, task_queue, unfinished_tasks, data_queue, threads,
                 ri, wpc, wdata, committed, transformed, puller, done_marks, sink>>
  /\ UNCHANGED <<supVars, seqVars>>

\* run: self.data_queue.put(None)
RunSentinel ==
  /\ rpc = "sentinel"
  /\ data_queue' = Append(data_queue, 0)
  /\ rpc' = "writer_join"
  /\ UNCHANGED <<items, thread_count, task_queue, unfinished_tasks, threads,
                 ri, wpc, wdata, committed, transformed, puller, done_marks, sink>>
  /\ UNCHANGED <<supVars, seqVars>>

\* run: db_writer.join() returns; run returns
RunWriterJoin ==
  /\ rpc = "writer_join"
  /\ WriterEnded
  /\ rpc' = "done"
  /\ UNCHANGED <<items, thread_count, task_queue, unfinished_tasks, data_queue, threads,
                 ri, wpc, wdata, committed, transformed, puller, done_marks, sink>>
  /\ UNCHANGED <<supVars, seqVars>>

\* scrape_worker: item = self.task_queue.get(timeout=1) hands out an item
ScrapeGet(t) ==
  /\ threads[t].pc = "get"
  /\ task_queue # <<>>
  /\ threads' = [threads EXCEPT ![t].pc = "parse", ![t].item = Head(task_queue)]
  /\ task_queue' = QueueRest(task_queue)
  /\ puller' = [puller EXCEPT ![Head(task_queue)] = t]
  /\ UNCHANGED <<items, thread_count, unfinished_tasks, data_queue, rpc, ri, wpc, wdata,
                 committed, transformed, done_marks, sink>>
  /\ UNCHANGED <<supVars, seqVars>>

\* scrape_worker: the get times out on the empty queue (queue.Empty): break
ScrapeEmpty(t) ==
  /\ threads[t].pc = "get"
  /\ task_queue = <<>>
  /\ threads' = [threads EXCEPT ![t].pc = "exited"]
  /\ UNCHANGED <<items, thread_count, task_queue, unfinished_tasks, data_queue, rpc, ri,
                 wpc, wdata, committed, transformed, puller, done_marks, sink>>
  /\ UNCHANGED <<supVars, seqVars>>

\* scrape_worker: data = self.parse_product(product, category); an exception
\* that leaves parse_product is caught nowhere and ends the thread
ScrapeParse(t) ==
  /\ threads[t].pc = "parse"
  /\ LET r == parse_product(items[threads[t].item]) IN
       threads' = [threads EXCEPT ![t].data = r,
                                  ![t].pc = CASE r = "raise" -> "died"
                                              [] PutsData(r) -> "put"
                                              [] OTHER -> "task_done"]
  /\ transformed' = [transformed EXCEPT ![threads[t].item] = @ + 1]
  /\ UNCHANGED <<items, thread_count, task_queue, unfinished_tasks, data_queue, rpc, ri,
                 wpc, wdata, committed, puller, done_marks, sink>>
  /\ UNCHANGED <<supVars, seqVars>>

\* scrape_worker: if data: self.data_queue.put(data)
ScrapePut(t) ==
  /\ threads[t].pc = "put"
  /\ data_queue' = Append(data_queue,
                          IF threads[t].data = "record" THEN threads[t].item ELSE 0)
  /\ threads' = [threads EXCEPT ![t].pc = "task_done"]
  /\ UNCHANGED <<items, thread_count, task_queue, unfinished_tasks, rpc, ri, wpc, wdata,
                 committed, transformed, puller, done_marks, sink>>
  /\ UNCHANGED <<supVars, seqVars>>

\* scrape_worker: self.task_queue.task_done()
ScrapeTaskDone(t) ==
  /\ threads[t].pc = "task_done"
  /\ unfinished_tasks' = task_done(unfinished_tasks)
  /\ done_marks' = [done_marks EXCEPT ![threads[t].item] = @ + 1]
  /\ threads' = [threads EXCEPT ![t].pc = "get", ![t].item = 0, ![t].data = "None"]
  /\ UNCHANGED <<items, thread_count, task_queue, data_queue, rpc, ri, wpc, wdata,
                 committed, transformed, puller, sink>>
  /\ UNCHANGED <<supVars, seqVars>>

\* db_writer_worker: data = self.data_queue.get(); if data is None: break
WriterGet ==
  /\ wpc = "get"
  /\ data_queue # <<>>
  /\ wdata' = Head(data_queue)
  /\ data_queue' = Tail(data_queue)
  /\ wpc' = IF Head(data_queue) = 0 THEN "exited" ELSE "insert"
  /\ UNCHANGED <<items, thread_count, task_queue, unfinished_tasks, threads, rpc, ri,
                 committed, transformed, puller, done_marks, sink>>
  /\ UNCHANGED <<supVars, seqVars>>

\* db_writer_worker: self.insert_to_db(cur, data); conn.commit()
WriterInsert ==
  /\ wpc = "insert"
  /\ \E outcome \in SinkOutcomes :
       /\ sink' = [sink EXCEPT !.rec[wdata] = outcome]
       /\ committed' = IF IsCommitted(outcome) THEN Append(committed, wdata) ELSE committed
       /\ wpc' = IF WriterSurvives(outcome) THEN "get" ELSE "died"
  /\ UNCHANGED <<items, thread_count, task_queue, unfinished_tasks, data_queue, threads,
                 rpc, ri, wdata, transformed, puller, done_marks>>
  /\ UNCHANGED <<supVars, seqVars>>

\* db_writer_worker: db = DatabaseConnection(); conn = db.connect(); cur = conn.cursor()
\* psycopg2.connect raising ends the thread before its loop
WriterConnect ==
  /\ wpc = "connect"
  /\ \E outcome \in {"ok", "fail"} :
       /\ sink' = [sink EXCEPT !.connect = outcome]
       /\ wpc' = IF outcome = "ok" THEN "get" ELSE "died"
  /\ UNCHANGED <<items, thread_count, task_queue, unfinished_tasks, data_queue, threads,
                 rpc, ri, wdata, committed, transformed, puller, done_marks>>
  /\ UNCHANGED <<supVars, seqVars>>

PipeNext ==
  \/ RunPut
  \/ RunDiscovered
  \/ RunSpawn
  \/ RunStartWriter
  \/ RunJoin
  \/ RunSentinel
  \/ RunWriterJoin
  \/ \E t \in 1..Len(threads) : ScrapeGet(t)
  \/ \E t \in 1..Len(threads) : ScrapeEmpty(t)
  \/ \E t \in 1..Len(threads) : ScrapeParse(t)
  \/ \E t \in 1..Len(threads) : ScrapePut(t)
  \/ \E t \in 1..Len(threads) : ScrapeTaskDone(t)
  \/ WriterConnect
  \/ WriterGet
  \/ WriterInsert

\* the supervisor as it is before BookScraper.run is called
SupIdle ==
  /\ categories = <<>>
  /\ num_processes = 1
  /\ failK = <<0>>
  /\ units = <<(<<>>)>>
  /\ processes = <<>>
  /\ results = <<>>
  /\ mpc = "idle"
  /\ mi = 0
  /\ books = <<>>

\* BaseScraper.run is about to start; the supervisor is not running
PipeStart == PipeInit /\ SupIdle /\ SeqIdle

PipeSpec == PipeStart /\ [][PipeNext]_vars

\* the pipeline under fair scheduling: run, every started thread and the
\* writer keep being scheduled while they can take a step
PipeFairSpec == PipeStart /\ [][PipeNext]_vars /\ WF_vars(PipeNext)

\* ------------------------------------------------------------------------
\* task1: discovery (BaseScraper.run's first loop, fetch_category_products)
\* ------------------------------------------------------------------------

\* fetch_api_products tries this many API URLs per category
ApiUrls == 3

\* What one API URL can answer: "reqexc": session.get raises a
\* RequestException; "status": a status other than 200; "badjson": a body
\* response.json() cannot decode; "misshapen": JSON that is no mapping (such
\* as a list), on which data.get raises AttributeError; "empty": a mapping
\* without products; "products": a mapping with products.
ApiResponses == {"reqexc", "status", "badjson", "misshapen", "empty", "products"}

\* What the category's HTML page can answer: "emptybody": status 200 with an
\* empty body, on which html.fromstring raises lxml's ParserError;
\* "noblocks" / "blocks": a page without / with product blocks.
HtmlResponses == {"reqexc", "status", "emptybody", "noblocks", "blocks"}

Envs == [api : [1..ApiUrls -> ApiResponses], html : HtmlResponses]

\* fetch_api_products: the body of the try for one URL
ApiAttempt(resp) ==
  CASE resp = "reqexc" -> "RequestException"
    [] resp = "status" -> "continue"
    [] resp = "badjson" -> "JSONDecodeError"
    [] resp = "misshapen" -> "AttributeError"
    [] OTHER -> "return"

\* fetch_api_products from URL j on: "products", "empty" ([]) or "raise".
\* Its except clause is (requests.RequestException, json.JSONDecodeError).
RECURSIVE fetch_api_products(_, _)
fetch_api_products(api, j) ==
  IF j > ApiUrls THEN "empty"
  ELSE LET r == ApiAttempt(api[j]) IN
       IF r \in {"continue", "RequestException", "JSONDecodeError"}
       THEN fetch_api_products(api, j + 1)
       ELSE IF r \in Exceptions THEN "raise"
       ELSE IF api[j] = "products" THEN "products" ELSE "empty"

\* fetch_category_products, HTML part: the body of its try
HtmlAttempt(resp) ==
  CASE resp = "reqexc" -> "RequestException"
    [] resp = "status" -> "empty"
    [] resp = "emptybody" -> "ParserError"
    [] resp = "noblocks" -> "empty"
    [] OTHER -> "products"

\* fetch_category_products: "products", "empty" ([]) or "raise". The API call
\* is outside any try; the HTML part has `except requests.RequestException`.
fetch_category_products(env) ==
  LET p == fetch_api_products(env.api, 1) IN
  IF p = "raise" THEN "raise"
  ELSE IF p = "products" THEN "products"
  ELSE LET h == HtmlAttempt(env.html) IN
       IF h = "RequestException" THEN "empty"
       ELSE IF h \in Exceptions THEN "raise"
       ELSE h

DiscInit ==
  \E n \in 1..MaxCats :
    disc = [pc |-> "fetch", cats |-> n, ci |-> 0, env |-> "none", found |-> <<>>,
            pending |-> 0, queue |-> <<>>]

\* run: products = self.fetch_category_products(category) for the next
\* category; an exception leaving it leaves run
DiscFetch ==
  /\ disc.pc = "fetch"
  /\ disc.ci < disc.cats
  /\ \E env \in Envs : \E k \in 1..MaxItems :
       LET r == fetch_category_products(env)
           n == IF r = "products" THEN k ELSE 0
       IN disc' = IF r = "raise"
                  THEN [disc EXCEPT !.pc = "raised", !.env = env]
                  ELSE [disc EXCEPT !.pc = "put", !.env = env, !.pending = n,
                                    !.found = Append(@, n)]
  /\ UNCHANGED <<supVars, pipeVars, worker, call>>

\* run: self.task_queue.put((product, category)) for one product of the category
DiscPut ==
  /\ disc.pc = "put"
  /\ disc.pending > 0
  /\ disc' = [disc EXCEPT !.pending = @ - 1, !.queue = Append(@, disc.ci + 1)]
  /\ UNCHANGED <<supVars, pipeVars, worker, call>>

\* run: on to the next category
DiscNextCategory ==
  /\ disc.pc = "put"
  /\ disc.pending = 0
  /\ disc' = [disc EXCEPT !.pc = "fetch", !.ci = @ + 1, !.env = "none"]
  /\ UNCHANGED <<supVars, pipeVars, worker, call>>

\* run: the loop over self.categories is over; the threads are started next
DiscDone ==
  /\ disc.pc = "fetch"
  /\ disc.ci = disc.cats
  /\ disc' = [disc EXCEPT !.pc = "done"]
  /\ UNCHANGED <<supVars, pipeVars, worker, call>>

DiscNext ==
  \/ DiscFetch
  \/ DiscPut
  \/ DiscNextCategory
  \/ DiscDone

\* BaseScraper.run starts its discovery loop; nothing else is running
DiscStart ==
  /\ DiscInit
  /\ SupIdle
  /\ PipeIdle
  /\ worker = [pc |-> "idle"]
  /\ call = [pc |-> "idle"]

DiscSpec == DiscStart /\ [][DiscNext]_vars

\* ------------------------------------------------------------------------
\* task2: one worker process, step by step
\* (scrape_worker_wrapper, scrape_category)
\* ------------------------------------------------------------------------

\* A category is the list of its result pages, each page the number of books
\* it links to; only the last page lacks the "next" link. A category without
\* books is one empty page.
RECURSIVE BookPages(_)
BookPages(n) ==
  IF n = 0 THEN {<<>>}
  ELSE BookPages(n - 1) \cup UNION {{<<first>> \o rest : rest \in BookPages(n - first)} : first \in 1..n}

Layouts == (BookPages(MaxBooks) \ {<<>>}) \cup {<<0>>}

RECURSIVE TotalBooks(_)
TotalBooks(pages) == IF pages = <<>> THEN 0 ELSE Head(pages) + TotalBooks(Tail(pages))

\* mutant: the detail page is closed only after a successful extraction
ClosesDetailOnSuccess(outcome) == outcome = "record"

\* scrape_category: detail_page.close() is in the inner `finally`
ClosesDetail(outcome) == TRUE

\* scrape_category: the inner try/except Exception around goto and
\* collect_data keeps the loop over the links going
DetailFailureCaught(outcome) == TRUE

WorkerInit ==
  \E subset \in SeqsUpTo(Layouts, MaxSubset) :
    worker = [pc |-> "launch", subset |-> subset, ci |-> 0, pi |-> 0, bi |-> 0,
              browser |-> "none", closes |-> 0, open |-> {},
              touched |-> [c \in 1..Len(subset) |-> 0],
              appended |-> [c \in 1..Len(subset) |-> 0],
              catfault |-> FALSE, escaped |-> FALSE, exitcode |-> "None",
              restart |-> "unexamined"]

\* the category the worker is in, and the books of the page it is on
CurPages == worker.subset[worker.ci + 1]
CurBooks == CurPages[worker.pi + 1]

\* scrape_worker_wrapper: sync_playwright() and self.launch_browser(p), both
\* outside the try: a failure ends the process with a traceback (status 1)
WkLaunch ==
  /\ worker.pc = "launch"
  /\ \E ok \in BOOLEAN :
       worker' = IF ok
                 THEN [worker EXCEPT !.pc = "cat_open", !.browser = "open"]
                 ELSE [worker EXCEPT !.pc = "exited", !.exitcode = "nonzero"]
  /\ UNCHANGED <<supVars, pipeVars, disc, call>>

\* scrape_category: page = browser.new_page(), before its try: a failure
\* leaves scrape_category and is caught by the wrapper's except, which ends
\* the loop over the categories
WkCatOpen ==
  /\ worker.pc = "cat_open"
  /\ worker.ci < Len(worker.subset)
  /\ \E ok \in BOOLEAN :
       worker' = IF ok
                 THEN [worker EXCEPT !.pc = "cat_nav", !.pi = 0, !.bi = 0,
                                     !.open = @ \cup {"category"}]
                 ELSE [worker EXCEPT !.pc = "browser_close", !.catfault = TRUE,
                                     !.escaped = TRUE]
  /\ UNCHANGED <<supVars, pipeVars, disc, call>>

\* scrape_worker_wrapper: the loop over categories_subset is over
WkCatsDone ==
  /\ worker.pc = "cat_open"
  /\ worker.ci = Len(worker.subset)
  /\ worker' = [worker EXCEPT !.pc = "browser_close"]
  /\ UNCHANGED <<supVars, pipeVars, disc, call>>

\* scrape_category: page.goto(category_url) and the h1's text_content(),
\* inside the outer try
WkCatNav ==
  /\ worker.pc = "cat_nav"
  /\ \E ok \in BOOLEAN :
       worker' = IF ok
                 THEN [worker EXCEPT !.pc = "link"]
                 ELSE [worker EXCEPT !.pc = "cat_close", !.catfault = TRUE]
  /\ UNCHANGED <<supVars, pipeVars, disc, call>>

\* scrape_category: the next link of the page: book_url = ... link.get_attribute('href')...
\* is outside the inner try, so a failure is caught by the outer except
WkLink ==
  /\ worker.pc = "link"
  /\ worker.bi < CurBooks
  /\ \E ok \in BOOLEAN :
       worker' = IF ok
                 THEN [worker EXCEPT !.pc = "detail_open", !.touched[worker.ci + 1] = @ + 1]
                 ELSE [worker EXCEPT !.pc = "cat_close", !.touched[worker.ci + 1] = @ + 1]
  /\ UNCHANGED <<supVars, pipeVars, disc, call>>

\* scrape_category: detail_page = browser.new_page(), outside the inner try
WkDetailOpen ==
  /\ worker.pc = "detail_open"
  /\ \E ok \in BOOLEAN :
       worker' = IF ok
                 THEN [worker EXCEPT !.pc = "detail", !.open = @ \cup {"detail"}]
                 ELSE [worker EXCEPT !.pc = "cat_close"]
  /\ UNCHANGED <<supVars, pipeVars, disc, call>>

\* scrape_category: detail_page.goto, data = self.collect_data(...),
\* `if data: self.results.append(data)`, and the inner except / finally
WkDetail ==
  /\ worker.pc = "detail"
  /\ \E outcome \in {"record", "absent", "goto_fail"} :
       worker' = [worker EXCEPT
                    !.appended[worker.ci + 1] = IF outcome = "record" THEN @ + 1 ELSE @,
                    !.open = IF ClosesDetail(outcome) THEN @ \ {"detail"} ELSE @,
                    !.bi = IF DetailFailureCaught(outcome) THEN @ + 1 ELSE @,
                    !.pc = IF DetailFailureCaught(outcome) THEN "link" ELSE "cat_close"]
  /\ UNCHANGED <<supVars, pipeVars, disc, call>>

\* scrape_category: the links of the page are done; `li.next a`: break when
\* there is none, else page.goto(next_url), inside the outer try
WkNextPage ==
  /\ worker.pc = "link"
  /\ worker.bi = CurBooks
  /\ IF worker.pi + 1 = Len(CurPages)
     THEN worker' = [worker EXCEPT !.pc = "cat_close"]
     ELSE \E ok \in BOOLEAN :
            worker' = IF ok
                      THEN [worker EXCEPT !.pi = @ + 1, !.bi = 0]
                      ELSE [worker EXCEPT !.pc = "cat_close", !.catfault = TRUE]
  /\ UNCHANGED <<supVars, pipeVars, disc, call>>

\* scrape_category: the outer finally: page.close(); back in the wrapper's loop
WkCatClose ==
  /\ worker.pc = "cat_close"
  /\ worker' = [worker EXCEPT !.pc = "cat_open", !.ci = @ + 1,
                              !.open = @ \ {"category"}]
  /\ UNCHANGED <<supVars, pipeVars, disc, call>>

\* mutant: the wrapper lets the error of scrape_category through
ExitStatusPropagates(escaped) == IF escaped THEN "nonzero" ELSE "zero"

\* scrape_worker_wrapper: `except Exception` logs the error that left
\* scrape_category; the target function returns and the process exits with 0
ExitStatus(escaped) == "zero"

\* scrape_worker_wrapper: finally: browser.close(); the process ends
WkBrowserClose ==
  /\ worker.pc = "browser_close"
  /\ worker' = [worker EXCEPT !.pc = "exited", !.browser = "closed",
                              !.closes = @ + 1,
                              !.exitcode = ExitStatus(worker.escaped)]
  /\ UNCHANGED <<supVars, pipeVars, disc, call>>

\* monitor: `if not p.is_alive() and p.exitcode != 0` on the handle of this
\* worker once it has ended
WkMonitorLook ==
  /\ worker.pc = "exited"
  /\ worker.restart = "unexamined"
  /\ worker' = [worker EXCEPT !.restart =
                  IF NeedsRestart([state |-> "exited", exitcode |-> worker.exitcode])
                  THEN "yes" ELSE "no"]
  /\ UNCHANGED <<supVars, pipeVars, disc, call>>

WkNext ==
  \/ WkLaunch
  \/ WkCatOpen
  \/ WkCatsDone
  \/ WkCatNav
  \/ WkLink
  \/ WkDetailOpen
  \/ WkDetail
  \/ WkNextPage
  \/ WkCatClose
  \/ WkBrowserClose
  \/ WkMonitorLook

\* a worker process starts on its chunk; nothing else is modelled around it
WkStart ==
  /\ WorkerInit
  /\ SupIdle
  /\ PipeIdle
  /\ disc = [pc |-> "idle"]
  /\ call = [pc |-> "idle"]

WkSpec == WkStart /\ [][WkNext]_vars

\* ------------------------------------------------------------------------
\* The two record builders, called once on an input
\* (task1 VendrScraper.parse_product on an HTML block,
\*  task2 BookScraper.collect_data on a detail page)
\* ------------------------------------------------------------------------

\* An HTML product block as parse_product looks at it: its name heading
\* ("classed": an h2/h3 whose class contains 'title', or an a.name;
\* "unclassed": a bare h2/h3; "none"), whether it links to /marketplace/ or
\* /software/, whether it carries a price-range element and a description
\* paragraph, how the detail page answers, and whether the detail page carries
\* a price element and a description.
Blocks ==
  [heading : {"none", "unclassed", "classed"}, link : BOOLEAN,
   price : BOOLEAN, desc : BOOLEAN,
   detail : {"ok", "status", "reqexc", "empty"},
   dprice : BOOLEAN, ddesc : BOOLEAN]

\* the name XPath of parse_product matches classed headings only
HtmlItemOf(block) == HtmlItem(block.heading = "classed", block.link, block.detail)

\* parse_product, HTML branch: the record it builds; price_range is looked up
\* in the detail page only, description in the block and then in the detail page
HtmlRecord(block, category) ==
  [name |-> "block.name",
   category |-> category,
   price_range |-> IF block.dprice THEN "detail.price" ELSE "N/A",
   description |-> IF block.desc THEN "block.description"
                   ELSE IF block.ddesc THEN "detail.description" ELSE "N/A"]

\* parse_product(product_html, category) with what it returns
parse_product_html(block, category) ==
  IF parse_product(HtmlItemOf(block)) = "record"
  THEN [kind |-> "record", rec |-> HtmlRecord(block, category)]
  ELSE [kind |-> parse_product(HtmlItemOf(block))]

\* collect_data: its extraction steps in the order of the code
Steps ==
  <<"title", "price", "rating", "stock", "image_url", "desc_count", "description", "info">>

\* what a step can do on a page: a locator that finds nothing times out; the
\* two get_attribute steps can also hand None to split / replace
StepOutcomes(s) ==
  IF s \in {"rating", "image_url"} THEN {"ok", "TimeoutError", "AttributeError"}
  ELSE {"ok", "TimeoutError"}

Pages ==
  { p \in [step : [{Steps[i] : i \in 1..Len(Steps)} -> {"ok", "TimeoutError", "AttributeError"}],
           has_desc : BOOLEAN] :
      \A i \in 1..Len(Steps) : p.step[Steps[i]] \in StepOutcomes(Steps[i]) }

\* the description text is read only when #product_description is on the page
StepRuns(page, s) == s # "description" \/ page.has_desc

Failing(page) ==
  { i \in 1..Len(Steps) : StepRuns(page, Steps[i]) /\ page.step[Steps[i]] # "ok" }

FirstFailure(page) ==
  page.step[Steps[CHOOSE i \in Failing(page) : \A j \in Failing(page) : i <= j]]

\* mutant: collect_data catches the locator timeout only
CollectCatchesTimeoutOnly(exc) == exc = "TimeoutError"

\* collect_data: `except Exception` around its whole body
CollectCatches(exc) == TRUE

BookRecord(page, category) ==
  [title |-> "page.title",
   category |-> category,
   price |-> "page.price",
   rating |-> "page.rating",
   stock_availability |-> "page.stock",
   image_url |-> "page.image",
   description |-> IF page.has_desc THEN "page.description" ELSE "N/A",
   product_information |-> "page.table"]

collect_data(page, category) ==
  IF Failing(page) = {}
  THEN [kind |-> "record", rec |-> BookRecord(page, category)]
  ELSE IF CollectCatches(FirstFailure(page)) THEN [kind |-> "None"]
       ELSE [kind |-> "raise"]

CallInit ==
  \E category \in 1..MaxCats :
    \/ \E block \in Blocks :
         call = [pc |-> "called", fn |-> "parse_product", arg |-> block,
                 category |-> category, result |-> [kind |-> "pending"]]
    \/ \E page \in Pages :
         call = [pc |-> "called", fn |-> "collect_data", arg |-> page,
                 category |-> category, result |-> [kind |-> "pending"]]

CallParseProduct ==
  /\ call.pc = "called"
  /\ call.fn = "parse_product"
  /\ call' = [call EXCEPT !.pc = "returned",
                          !.result = parse_product_html(call.arg, call.category)]
  /\ UNCHANGED <<supVars, pipeVars, disc, worker>>

CallCollectData ==
  /\ call.pc = "called"
  /\ call.fn = "collect_data"
  /\ call' = [call EXCEPT !.pc = "returned",
                          !.result = collect_data(call.arg, call.category)]
  /\ UNCHANGED <<supVars, pipeVars, disc, worker>>

CallNext ==
  \/ CallParseProduct
  \/ CallCollectData

CallStart ==
  /\ CallInit
  /\ SupIdle
  /\ PipeIdle
  /\ disc = [pc |-> "idle"]
  /\ worker = [pc |-> "idle"]

CallSpec == CallStart /\ [][CallNext]_vars

\* ------------------------------------------------------------------------
\* Properties of the supervisor (checked under Spec)
\* ------------------------------------------------------------------------

\* the chunk start_processes handed to the original unit of index i
OriginalChunk(i) == units[i + 1][1].subset

RECURSIVE ConcatChunks(_)
ConcatChunks(n) == IF n = 0 THEN <<>> ELSE ConcatChunks(n - 1) \o OriginalChunk(n - 1)

Started == Len(processes) = num_processes

\* C1: for 1 <= N <= len(L), the chunks start_processes hands to workers
\* 0..N-1, concatenated in index order, are L itself; every chunk but the last
\* has floor(len(L)/N) elements and the last one runs from
\* (N-1)*floor(len(L)/N) to the end of L.
C1_PartitionExact ==
  (Started /\ num_processes <= Len(categories)) =>
    /\ ConcatChunks(num_processes) = categories
    /\ \A i \in 0..(num_processes - 2) :
         Len(OriginalChunk(i)) = Len(categories) \div num_processes
    /\ OriginalChunk(num_processes - 1) =
         SubSeq(categories,
                (num_processes - 1) * (Len(categories) \div num_processes) + 1,
                Len(categories))

\* C1 witness: two workers started on three categories (a remainder to absorb)
C1_Witness ==
  /\ Started
  /\ num_processes = 2
  /\ Len(categories) = 3
  /\ Len(OriginalChunk(1)) = 2

\* C2: for 1 <= N <= len(L), every replacement unit of index i is handed the
\* chunk the original unit of index i was handed, the last index included.
C2_RestartKeepsChunk ==
  num_processes <= Len(categories) =>
  \A i \in 0..(num_processes - 1) :
    \A n \in 1..Len(units[i + 1]) : units[i + 1][n].subset = OriginalChunk(i)

\* C3: when monitor has returned, every unit that ended with a non-zero exit
\* status has been followed by a replacement unit of the same index.
C3_CrashAlwaysRestarted ==
  mpc = "done" =>
    \A i \in 0..(num_processes - 1) :
      \A n \in 1..Len(units[i + 1]) :
        units[i + 1][n].exitcode = "nonzero" => n < Len(units[i + 1])

\* at most one index has abnormal exits ahead of it
OneFailingIndex == Cardinality({j \in 1..num_processes : failK[j] > 0}) <= 1

\* C4: if one index fails its first k launches and succeeds on launch k+1 and
\* all other workers succeed, then when monitor has returned every handle is a
\* terminated unit of exit status 0 and that index was replaced exactly k times.
C4_FinalHandleSucceeds ==
  (mpc = "done" /\ OneFailingIndex) =>
    \A i \in 0..(num_processes - 1) :
      /\ Handle(i).state = "exited"
      /\ Handle(i).exitcode = "zero"
      /\ processes[i + 1] = failK[i + 1] + 1

\* exactly one unit crashes in the run, and it crashed before appending anything
OneCrashBeforeAppend ==
  /\ SumTo(failK, num_processes) = 1
  /\ \A i \in 0..(num_processes - 1) :
       \A n \in 1..Len(units[i + 1]) :
         units[i + 1][n].exitcode = "nonzero" => units[i + 1][n].pos = 0

\* C5: if one worker's unit crashes once before appending its records, the
\* collection run dumps after monitor returned holds a record of every category.
C5_AllCategoriesCollected ==
  (mpc = "done" /\ num_processes <= Len(categories) /\ OneCrashBeforeAppend) =>
    \A c \in 1..Len(categories) : books[c] >= 1

\* the categories of a chunk
Cats(chunk) == {chunk[k] : k \in 1..Len(chunk)}

\* C6: a replacement unit of index i is launched on categories of index i's
\* own chunk only, the shared collection holds at most one record of a
\* category per launch of the index that owns it, and so a category of a
\* worker that never crashed has no duplicate record.
C6_NoForeignDuplicates ==
  \A i \in 0..(Len(processes) - 1) :
    /\ \A n \in 1..Len(units[i + 1]) :
         Cats(units[i + 1][n].subset) \subseteq Cats(OriginalChunk(i))
    /\ \A c \in Cats(OriginalChunk(i)) :
         /\ results[c] <= Len(units[i + 1])
         /\ (failK[i + 1] = 0 => results[c] <= 1)
         /\ (mpc = "done" => books[c] <= Len(units[i + 1]))

\* C6 witness: monitor returned after index 0 crashed with a record appended
\* and was replaced, while index 1 never crashed and has its single record
C6_Witness ==
  /\ mpc = "done"
  /\ num_processes >= 2
  /\ Len(units[1]) = 2
  /\ units[1][1].pos >= 1
  /\ units[1][2].pos >= 1
  /\ Len(units[2]) = 1
  /\ \A c \in Cats(OriginalChunk(1)) : books[c] = 1
  /\ \E c \in Cats(OriginalChunk(0)) : books[c] = 2

\* C7: whenever monitor replaces the handle of an index, the unit that handle
\* stood for had terminated with a non-zero exit status; a live unit and a
\* unit that exited with status 0 are never replaced.
C7_RestartOnlyAbnormal ==
  [][\A j \in 1..Len(processes) :
       processes'[j] # processes[j] =>
         /\ units[j][processes[j]].state = "exited"
         /\ units[j][processes[j]].exitcode = "nonzero"]_vars

\* C7 witness: index 0 was replaced after a crash while the unit of index 1,
\* which exited with status 0, was polled and is still the original one
C7_Witness ==
  /\ mpc = "for"
  /\ mi = num_processes
  /\ num_processes >= 2
  /\ Len(units[1]) = 2
  /\ units[1][1].exitcode = "nonzero"
  /\ Len(units[2]) = 1
  /\ units[2][1].exitcode = "zero"

\* C8: monitor reaches its joins, and returns, only when every tracked
\* handle, replacements included, has terminated; no join can block.
C8_ReturnsWhenAllTerminated ==
  mpc \in {"join", "done"} =>
    \A i \in 0..(num_processes - 1) : Handle(i).state = "exited"

\* C8 witness: monitor returned with a replacement among its handles
C8_Witness ==
  /\ mpc = "done"
  /\ num_processes >= 2
  /\ \E i \in 0..(num_processes - 1) : processes[i + 1] >= 2

\* ------------------------------------------------------------------------
\* Properties of the pipeline (checked under PipeSpec)
\* ------------------------------------------------------------------------

\* C9: no item is transformed twice, and when run has returned every enqueued
\* item was pulled by a worker thread and transformed exactly once.
C9_ExactlyOnce ==
  /\ \A k \in 1..Len(items) : transformed[k] <= 1
  /\ rpc = "done" =>
       \A k \in 1..Len(items) : transformed[k] = 1 /\ puller[k] \in 1..thread_count

\* C9 witness: run returned after two threads each pulled one of two items
C9_Witness ==
  /\ rpc = "done"
  /\ Len(items) >= 2
  /\ thread_count >= 2
  /\ puller[1] # puller[2]
  /\ transformed[1] = 1
  /\ transformed[2] = 1

\* C10: an item a worker pulled and is through with was marked done exactly
\* once, however its transform ended, and once every worker has stopped no
\* task is outstanding.
C10_AlwaysMarkedDone ==
  /\ \A t \in 1..Len(threads) :
       threads[t].pc \in {"get", "exited", "died"} =>
         \A k \in 1..Len(items) : puller[k] = t => done_marks[k] = 1
  /\ (Len(threads) = thread_count /\ rpc # "discover" /\ rpc # "spawn"
        /\ \A t \in 1..Len(threads) : threads[t].pc \in {"exited", "died"})
       => unfinished_tasks = 0

\* the None sentinels pushed so far: those still queued and the one the
\* writer left its loop on
SentinelsPushed ==
  Cardinality({j \in 1..Len(data_queue) : data_queue[j] = 0})
    + (IF wpc = "exited" THEN 1 ELSE 0)

\* C11: run pushes at most one sentinel, pushes it only when every enqueued
\* item has been dequeued and marked done, and has pushed exactly one when it
\* returns.
C11_OneSentinelAfterAllDone ==
  /\ SentinelsPushed <= 1
  /\ SentinelsPushed >= 1 =>
       /\ task_queue = <<>>
       /\ \A k \in 1..Len(items) : puller[k] # 0 /\ done_marks[k] = 1
  /\ rpc = "done" => SentinelsPushed = 1

\* C11 witness: run returned after two items were marked done and the writer
\* took the sentinel
C11_Witness ==
  /\ rpc = "done"
  /\ Len(items) >= 2
  /\ wpc = "exited"
  /\ \A k \in 1..Len(items) : done_marks[k] = 1

\* the writer has pulled the sentinel run pushed
SentinelPulled ==
  /\ rpc \in {"writer_join", "done"}
  /\ \A j \in 1..Len(data_queue) : data_queue[j] # 0

\* C12: the writer thread has ended if and only if it has pulled the
\* sentinel, whatever happened while inserting or committing a record.
C12_WriterEndsIffSentinel ==
  (sink.connect = "ok") => (WriterEnded <=> SentinelPulled)

\* the database never failed
NoSinkFault ==
  /\ sink.connect \in {"none", "ok"}
  /\ \A k \in 1..Len(items) : sink.rec[k] \in {"none", "ok"}

\* the items for which the transform returns absent
AbsentItems == {k \in 1..Len(items) : parse_product(items[k]) = "None"}

\* C13: when the transform returned absent for k of the n queued items and
\* no sink operation failed, exactly n-k records, one per other item, are
\* committed when run has returned, and the task queue is all done.
C13_AbsentItemsIsolated ==
  (rpc = "done" /\ NoSinkFault) =>
    /\ Len(committed) = Len(items) - Cardinality(AbsentItems)
    /\ {committed[j] : j \in 1..Len(committed)} = (1..Len(items)) \ AbsentItems
    /\ unfinished_tasks = 0
    /\ task_queue = <<>>

\* C13 witness: run returned on two items, one absent, one committed
C13_Witness ==
  /\ rpc = "done"
  /\ NoSinkFault
  /\ Len(items) = 2
  /\ Cardinality(AbsentItems) = 1
  /\ Len(committed) = 1

\* C14: once the database is connected, a failed insert or commit of one
\* record loses no other record: when run has returned every record the
\* workers produced was attempted by the writer, and committed unless its own
\* insert or commit failed.
C14_SinkFailureIsolated ==
  (rpc = "done" /\ sink.connect = "ok") =>
    \A k \in 1..Len(items) :
      parse_product(items[k]) = "record" =>
        /\ sink.rec[k] # "none"
        /\ sink.rec[k] = "ok" => \E j \in 1..Len(committed) : committed[j] = k

\* every transform call returns
NoRaisingItem == \A k \in 1..Len(items) : parse_product(items[k]) # "raise"

\* run has returned, with every worker and the writer out of their loops
Returned ==
  /\ rpc = "done"
  /\ Len(threads) = thread_count
  /\ \A t \in 1..Len(threads) : threads[t].pc = "exited"
  /\ wpc = "exited"

\* C15: when every transform call returns and no sink operation fails, run
\* eventually returns under fair scheduling, every worker having left its
\* loop on the empty queue and the writer on the sentinel.
C15_RunReturns ==
  (NoRaisingItem /\ []NoSinkFault) => <>Returned

\* C15 witness: run returned on two items worked by two threads
C15_Witness ==
  /\ Returned
  /\ NoSinkFault
  /\ Len(items) >= 2
  /\ thread_count >= 2
  /\ \A k \in 1..Len(items) : puller[k] # 0

\* discovery of a category failed: no API URL gave a usable answer and
\* neither did the HTML page
DiscoveryFailed(env) ==
  /\ \A j \in 1..ApiUrls : env.api[j] \in {"reqexc", "status", "badjson", "misshapen"}
  /\ env.html \in {"reqexc", "status", "emptybody"}

\* the queued items of category c
QueuedOf(c) == Cardinality({j \in 1..Len(disc.queue) : disc.queue[j] = c})

\* C16: discovery never raises out of run; a category whose discovery failed
\* yields no item; and when the discovery loop is over every category was
\* fetched and every item found for any category is queued.
C16_DiscoveryIsolated ==
  /\ disc.pc # "raised"
  /\ (disc.pc = "put" /\ DiscoveryFailed(disc.env)) => disc.found[disc.ci + 1] = 0
  /\ disc.pc = "done" =>
       /\ Len(disc.found) = disc.cats
       /\ \A c \in 1..disc.cats : QueuedOf(c) = disc.found[c]

\* ------------------------------------------------------------------------
\* Properties of one worker process (checked under WkSpec)
\* ------------------------------------------------------------------------

\* C17: when the worker has ended without a category-level failure (opening
\* or loading a category page, following "next"), however many of its items
\* failed, every item of every category of its chunk was reached.
C17_ItemFailureSkipsOnlyItem ==
  (worker.pc = "exited" /\ worker.exitcode = "zero" /\ ~worker.catfault) =>
    \A c \in 1..Len(worker.subset) :
      worker.touched[c] = TotalBooks(worker.subset[c])

\* C18: the browser, once acquired, is closed exactly once before the unit
\* exits, on the normal path and on the error path alike; a detail page is
\* open only while its book is handled and a category page only while its
\* category is.
C18_ScopedRelease ==
  /\ worker.closes <= 1
  /\ (worker.pc = "exited" /\ worker.browser # "none") =>
       worker.browser = "closed" /\ worker.closes = 1
  /\ worker.pc # "detail" => "detail" \notin worker.open
  /\ worker.pc \in {"launch", "cat_open", "browser_close", "exited"} => worker.open = {}

\* C18 witness: the unit exited after an error escaped scrape_category and
\* after a detail page failed, with its browser closed once and no page open
C18_Witness ==
  /\ worker.pc = "exited"
  /\ worker.escaped
  /\ worker.closes = 1
  /\ worker.open = {}
  /\ \E c \in 1..Len(worker.subset) : worker.touched[c] > worker.appended[c]

\* ------------------------------------------------------------------------
\* Properties of the record builders (checked under CallSpec)
\* ------------------------------------------------------------------------

\* C19: parse_product on an HTML block that carries a name heading, a
\* price-range element and a description paragraph returns a record with
\* exactly the fields name, category, price_range and description, with name,
\* price range and description taken from the block and category from the
\* argument.
C19_BlockYieldsFullRecord ==
  ( /\ call.pc = "returned"
    /\ call.fn = "parse_product"
    /\ call.arg.heading # "none"
    /\ call.arg.price
    /\ call.arg.desc ) =>
    /\ call.result.kind = "record"
    /\ DOMAIN call.result.rec = {"name", "category", "price_range", "description"}
    /\ call.result.rec.name = "block.name"
    /\ call.result.rec.category = call.category
    /\ call.result.rec.price_range = "block.price"
    /\ call.result.rec.description = "block.description"

BookFields ==
  {"title", "category", "price", "rating", "stock_availability", "image_url",
   "description", "product_information"}

EveryStepSucceeds(page) ==
  \A i \in 1..Len(Steps) :
    (Steps[i] = "description" => page.has_desc) => page.step[Steps[i]] = "ok"

Enqueued ==
  {data_queue[j] : j \in 1..Len(data_queue)} \cup {wdata}
    \cup {k \in 1..Len(items) : sink.rec[k] # "none"}

\* the records the transform produces
RecordItems == {k \in 1..Len(items) : parse_product(items[k]) = "record"}

\* a sentinel is behind every record of the result queue, and once it is
\* pushed every produced record has been put on the queue
SentinelBehindRecords ==
  /\ \A j \in 1..Len(data_queue) : data_queue[j] = 0 => j = Len(data_queue)
  /\ SentinelsPushed >= 1 => RecordItems \subseteq Enqueued

\* C21: the sentinel is behind every produced record in the result queue,
\* and when the writer has ended after the sentinel was pushed it has
\* dequeued every produced record and attempted to commit it.
C21_SentinelObservedLast ==
  /\ SentinelBehindRecords
  /\ (WriterEnded /\ sink.connect = "ok" /\ rpc \in {"writer_join", "done"}) =>
       /\ \A j \in 1..Len(data_queue) : data_queue[j] = 0
       /\ \A k \in RecordItems : sink.rec[k] # "none"

\* ------------------------------------------------------------------------
\* Handles of the supervisor (checked under Spec)
\* ------------------------------------------------------------------------

\* the launches of index i that are alive
LiveUnits(i) == {n \in 1..Len(units[i + 1]) : is_alive(units[i + 1][n])}

InMonitor == mpc \in {"while", "for", "join"}

\* C22: while monitor runs there are exactly num_processes tracked handles,
\* the handle of an index is its latest launch, every earlier launch of the
\* index has exited abnormally (it was replaced once and is tracked no more),
\* at most one unit per index is alive, and the chunks of two live units
\* never overlap.
C22_OneLiveUnitPerIndex ==
  InMonitor =>
    /\ Len(processes) = num_processes
    /\ \A i \in 0..(num_processes - 1) :
         /\ processes[i + 1] = Len(units[i + 1])
         /\ \A n \in 1..(Len(units[i + 1]) - 1) :
              ~is_alive(units[i + 1][n]) /\ units[i + 1][n].exitcode = "nonzero"
         /\ Cardinality(LiveUnits(i)) <= 1
    /\ \A i, j \in 0..(num_processes - 1) :
         \A n \in LiveUnits(i), m \in LiveUnits(j) :
           i # j => Cats(units[i + 1][n].subset) \cap Cats(units[j + 1][m].subset) = {}

\* C22 witness: monitor is running, one index has had its crashed unit
\* replaced and the replacement is alive next to a live unit of another index
C22_Witness ==
  /\ InMonitor
  /\ \E i, j \in 0..(num_processes - 1) :
       /\ i # j
       /\ Len(units[i + 1]) >= 2
       /\ is_alive(Handle(i))
       /\ is_alive(Handle(j))
       /\ Handle(i).subset # <<>>
       /\ Handle(j).subset # <<>>

\* ------------------------------------------------------------------------
\* An error that leaves scrape_category (checked under WkSpec)
\* ------------------------------------------------------------------------

\* the categories of the chunk the worker never opened
Skipped == (worker.ci + 1)..Len(worker.subset)

\* C23: when an error left scrape_category, the worker has ended with exit
\* status 0 without touching the category it was opening or any later
\* category of its chunk, and monitor does not restart it.
C23_EscapedErrorSwallowed ==
  (worker.pc = "exited" /\ worker.escaped) =>
    /\ worker.exitcode = "zero"
    /\ \A c \in Skipped : worker.touched[c] = 0 /\ worker.appended[c] = 0
    /\ worker.restart # "yes"

\* C23 witness: opening the second category of the chunk failed after the
\* first was scraped; the worker ended, monitor looked at it and left it
\* alone, and the books of the second category were never reached
C23_Witness ==
  /\ worker.pc = "exited"
  /\ worker.escaped
  /\ worker.restart = "no"
  /\ worker.ci >= 1
  /\ worker.appended[1] >= 1
  /\ \E c \in Skipped : TotalBooks(worker.subset[c]) > 0 /\ worker.touched[c] = 0

====
